---- MODULE Spec2Model ----
(***************************************************************************)
(* A model of a5er_parser.py: the A5:ER document parser (A5erParser), the  *)
(* relation index (RelationIndex) and the page writer (main).              *)
(*                                                                         *)
(* Text is modelled as a sequence of atoms.  An atom is either a single    *)
(* character that the code inspects ("\n", " ", "[", "\"", ",", "=", the   *)
(* byte-order-mark "BOM", "/", "_") or an indivisible run of other         *)
(* characters ("PName=", "Entity]", "a", ...).  Every string operation of  *)
(* the code (startswith, strip, split, slicing, regex matching) is         *)
(* modelled on these sequences the way the code performs it on characters. *)
(***************************************************************************)
EXTENDS Naturals, Sequences, FiniteSets

VARIABLES
    pc,            \* position in the run being modelled
    text,          \* the content handed to A5erParser(content)
    content,       \* A5erParser._content
    tables,        \* list[Table]
    foreign_keys,  \* list[ForeignKey]
    line,          \* the line handed to A5erParser._parse_column
    column,        \* the result of _parse_column: <<>> (None) or <<Column>>
    outgoing,      \* RelationIndex._outgoing
    incoming,      \* RelationIndex._incoming
    lookup,        \* the last get_outgoing / get_incoming call and its result
    pages,         \* main: the pages dict, as a sequence of [name, tables]
    files          \* main: the output directory, file name -> document

vars == <<pc, text, content, tables, foreign_keys, line, column,
          outgoing, incoming, lookup, pages, files>>

(***************************************************************************)
(* Bounds of the model.                                                    *)
(***************************************************************************)
MaxLines == 4
MaxRelLines == 5
MaxSections == 3
MaxBom == 2
MaxTail == 3
MaxFks == 3
MaxTables == 2

(***************************************************************************)
(* Characters and Python string primitives.                                *)
(***************************************************************************)
BOM == "BOM"
NL == "\n"
SP == " "
LB == "["
QUOTE == "\""
COMMA == ","
EQ == "="

\* str.isspace() for the characters of the model; the byte-order-mark is
\* not white space.
IsSpace(c) == c \in {SP, NL}

\* The first position >= i of s that holds no white space (Len(s) + 1 when
\* the white space runs to the end).
SkipSpace(s, i) ==
    CHOOSE j \in i..(Len(s) + 1) :
        /\ \A k \in i..(j - 1) : IsSpace(s[k])
        /\ (j <= Len(s) => ~IsSpace(s[j]))

\* The last position of s that holds no white space, or 0.
LastNonSpace(s) ==
    CHOOSE j \in 0..Len(s) :
        /\ \A k \in (j + 1)..Len(s) : IsSpace(s[k])
        /\ (j >= 1 => ~IsSpace(s[j]))

\* str.strip()
Strip(s) == SubSeq(s, SkipSpace(s, 1), LastNonSpace(s))

\* str.startswith(prefix)
StartsWith(s, prefix) ==
    /\ Len(s) >= Len(prefix)
    /\ SubSeq(s, 1, Len(prefix)) = prefix

\* s[n:]
Drop(s, n) == SubSeq(s, n + 1, Len(s))

\* The pieces of s between the positions of cuts, which are dropped: always
\* at least one piece.
CutAt(s, cuts) ==
    LET n == Cardinality(cuts)
        pos(k) == IF k = 0 THEN 0
                  ELSE IF k = n + 1 THEN Len(s) + 1
                  ELSE CHOOSE p \in cuts : Cardinality({q \in cuts : q < p}) = k - 1
    IN  [k \in 1..(n + 1) |-> SubSeq(s, pos(k - 1) + 1, pos(k) - 1)]

\* str.split(sep) for a one-character separator.
Split(s, sep) == CutAt(s, {i \in 1..Len(s) : s[i] = sep})

\* _SECTION_SPLIT_PATTERN.split(s): cut at every "\n" that is immediately
\* followed by "[", dropping that "\n".
SectionSplit(s) ==
    CutAt(s, {i \in 1..(Len(s) - 1) : s[i] = NL /\ s[i + 1] = LB})

\* Optional values: None is <<>>, a value x is <<x>>.
None == <<>>
Some(x) == <<x>>

(***************************************************************************)
(* Records of the data model (Column, TableIndex, Table, ForeignKey).      *)
(***************************************************************************)
Column(logical_name, physical_name, data_type, not_null, is_pk) ==
    [logical_name |-> logical_name, physical_name |-> physical_name,
     data_type |-> data_type, not_null |-> not_null, is_pk |-> is_pk]

TableIndex(name, is_unique, columns) ==
    [name |-> name, is_unique |-> is_unique, columns |-> columns]

Table(physical_name, logical_name, page, columns, indexes) ==
    [physical_name |-> physical_name, logical_name |-> logical_name,
     page |-> page, columns |-> columns, indexes |-> indexes]

ForeignKey(parent_table, child_table, parent_column, child_column) ==
    [parent_table |-> parent_table, child_table |-> child_table,
     parent_column |-> parent_column, child_column |-> child_column]

(***************************************************************************)
(* Regular-expression matching, character by character.                    *)
(***************************************************************************)
\* The first position >= i of s that holds c, or 0.
FirstAt(s, i, c) ==
    IF \E j \in i..Len(s) : s[j] = c
    THEN CHOOSE j \in i..Len(s) : s[j] = c /\ \A k \in i..(j - 1) : s[k] # c
    ELSE 0

NoMatch == [ok |-> FALSE, grp |-> <<>>, next |-> 0]

\* "([^"]*)",\s*  matched at position i: the group and the position after.
QuotedComma(s, i) ==
    IF i >= 1 /\ i <= Len(s) /\ s[i] = QUOTE /\ FirstAt(s, i + 1, QUOTE) # 0
    THEN LET close == FirstAt(s, i + 1, QUOTE) IN
         IF close + 1 <= Len(s) /\ s[close + 1] = COMMA
         THEN [ok |-> TRUE, grp |-> SubSeq(s, i + 1, close - 1),
               next |-> SkipSpace(s, close + 2)]
         ELSE NoMatch
    ELSE NoMatch

\* ([^,]*) matched at position i: the longest run without a comma.
UpToComma(s, i) ==
    LET stop == FirstAt(s, i, COMMA) IN
    IF stop = 0 THEN SubSeq(s, i, Len(s)) ELSE SubSeq(s, i, stop - 1)

FieldPrefix == <<"Field=">>

\* _FIELD_PATTERN.match(line): None (<<>>) or the five groups.
FieldMatch(s) ==
    IF ~StartsWith(s, FieldPrefix) THEN None
    ELSE LET g1 == QuotedComma(s, Len(FieldPrefix) + 1)
             g2 == QuotedComma(s, g1.next)
             g3 == QuotedComma(s, g2.next)
             g4 == QuotedComma(s, g3.next)
         IN  IF g1.ok /\ g2.ok /\ g3.ok /\ g4.ok
             THEN Some(<<g1.grp, g2.grp, g3.grp, g4.grp, UpToComma(s, g4.next)>>)
             ELSE None

\* str.upper() on the atoms of the model.
UpperAtom(c) ==
    CASE c = "not" -> "NOT"
      [] c = "null" -> "NULL"
      [] OTHER -> c

Upper(s) == [i \in 1..Len(s) |-> UpperAtom(s[i])]

\* sub in s
Contains(s, sub) ==
    \E i \in 1..(Len(s) + 1) :
        /\ i + Len(sub) - 1 <= Len(s)
        /\ SubSeq(s, i, i + Len(sub) - 1) = sub

NotNullText == <<"NOT", SP, "NULL">>
PkFlag == <<"0">>

\* A variant of IsPk that takes "1" for the primary-key flag.
IsPkWrongFlag(group5) == Strip(group5) = <<"1">>

\* The is_pk of a Field line, from its fifth group: pk_flag == "0".
IsPk(group5) == Strip(group5) = PkFlag

\* A5erParser._parse_column
ParseColumn(s) ==
    LET m == FieldMatch(s) IN
    IF m = None THEN None
    ELSE LET g == m[1] IN
         Some(Column(g[1], g[2], g[3], Contains(Upper(g[4]), NotNullText), IsPk(g[5])))

IndexPrefix == <<"Index=">>
IsDigit(c) == c \in {"0", "1"}

\* (\d+) from position i: the position after the longest run of digits.
SkipDigits(s, i) ==
    CHOOSE j \in i..(Len(s) + 1) :
        /\ \A k \in i..(j - 1) : IsDigit(s[k])
        /\ (j <= Len(s) => ~IsDigit(s[j]))

\* _INDEX_PATTERN.match(line): None or the three groups of
\* Index=([^=]+)=(\d+),(.+)
\* ("=" is the only atom holding an equals sign that the inputs place after
\* "Index=".)
IndexMatch(s) ==
    IF ~StartsWith(s, IndexPrefix) THEN None
    ELSE LET from == Len(IndexPrefix) + 1
             eq == FirstAt(s, from, EQ)
             dend == SkipDigits(s, eq + 1)
         IN  IF /\ eq > from
                /\ dend > eq + 1
                /\ dend <= Len(s) /\ s[dend] = COMMA
                /\ dend + 1 <= Len(s)
             THEN Some(<<SubSeq(s, from, eq - 1), SubSeq(s, eq + 1, dend - 1),
                         SubSeq(s, dend + 1, Len(s))>>)
             ELSE None

\* A5erParser._parse_index
ParseIndex(s) ==
    LET m == IndexMatch(s) IN
    IF m = None THEN None
    ELSE LET g == m[1]
             cols == Split(g[3], COMMA)
         IN  Some(TableIndex(g[1], g[2] = <<"1">>,
                             [i \in 1..Len(cols) |-> Strip(cols[i])]))

(***************************************************************************)
(* A5erParser                                                              *)
(***************************************************************************)
\* A variant of StripBom that leaves the byte-order-mark in place.
KeepBom(c) == c

\* A5erParser.__init__: the content with one leading byte-order-mark removed.
StripBom(c) == IF StartsWith(c, <<BOM>>) THEN Drop(c, 1) ELSE c

PNamePrefix == <<"PName=">>
LNamePrefix == <<"LName=">>
PagePrefix == <<"Page=">>

\* A variant of TableLine in which the first PName= line of a section wins.
TableLineFirstWins(acc, raw) ==
    LET l == Strip(raw) IN
    IF StartsWith(l, PNamePrefix)
    THEN IF acc.physical_name = <<>>
         THEN [acc EXCEPT !.physical_name = Drop(l, Len(PNamePrefix))]
         ELSE acc
    ELSE IF StartsWith(l, LNamePrefix)
    THEN [acc EXCEPT !.logical_name = Drop(l, Len(LNamePrefix))]
    ELSE IF StartsWith(l, PagePrefix)
    THEN [acc EXCEPT !.page = Drop(l, Len(PagePrefix))]
    ELSE IF StartsWith(l, FieldPrefix)
    THEN [acc EXCEPT !.columns = @ \o ParseColumn(l)]
    ELSE IF StartsWith(l, IndexPrefix)
    THEN [acc EXCEPT !.indexes = @ \o ParseIndex(l)]
    ELSE acc

\* One turn of the loop of _parse_table over the section's body lines.
TableLine(acc, raw) ==
    LET l == Strip(raw) IN
    IF StartsWith(l, PNamePrefix)
    THEN [acc EXCEPT !.physical_name = Drop(l, Len(PNamePrefix))]
    ELSE IF StartsWith(l, LNamePrefix)
    THEN [acc EXCEPT !.logical_name = Drop(l, Len(LNamePrefix))]
    ELSE IF StartsWith(l, PagePrefix)
    THEN [acc EXCEPT !.page = Drop(l, Len(PagePrefix))]
    ELSE IF StartsWith(l, FieldPrefix)
    THEN [acc EXCEPT !.columns = @ \o ParseColumn(l)]
    ELSE IF StartsWith(l, IndexPrefix)
    THEN [acc EXCEPT !.indexes = @ \o ParseIndex(l)]
    ELSE acc

RECURSIVE TableLines(_, _)
TableLines(acc, lines) ==
    IF lines = <<>> THEN acc
    ELSE TableLines(TableLine(acc, Head(lines)), Tail(lines))

\* A variant of EmitTable without the test of physical_name.
EmitTableAlways(acc) == Some(acc)

\* The end of _parse_table: no Table without a physical_name.
EmitTable(acc) == IF acc.physical_name = <<>> THEN None ELSE Some(acc)

\* A5erParser._parse_table
ParseTable(lines) ==
    EmitTable(TableLines(Table(<<>>, <<>>, <<>>, <<>>, <<>>), lines))

Entity1Prefix == <<"Entity1=">>
Entity2Prefix == <<"Entity2=">>
Fields1Prefix == <<"Fields1=">>
Fields2Prefix == <<"Fields2=">>

\* One turn of the loop of _parse_foreign_key.
ForeignKeyLine(acc, raw) ==
    LET l == Strip(raw) IN
    IF StartsWith(l, Entity1Prefix)
    THEN [acc EXCEPT !.parent_table = Drop(l, Len(Entity1Prefix))]
    ELSE IF StartsWith(l, Entity2Prefix)
    THEN [acc EXCEPT !.child_table = Drop(l, Len(Entity2Prefix))]
    ELSE IF StartsWith(l, Fields1Prefix)
    THEN [acc EXCEPT !.parent_column = Drop(l, Len(Fields1Prefix))]
    ELSE IF StartsWith(l, Fields2Prefix)
    THEN [acc EXCEPT !.child_column = Drop(l, Len(Fields2Prefix))]
    ELSE acc

RECURSIVE ForeignKeyLines(_, _)
ForeignKeyLines(acc, lines) ==
    IF lines = <<>> THEN acc
    ELSE ForeignKeyLines(ForeignKeyLine(acc, Head(lines)), Tail(lines))

\* A variant of EmitForeignKey that asks for any of the four values.
EmitForeignKeyAny(acc) ==
    IF /\ acc.parent_table = <<>> /\ acc.child_table = <<>>
       /\ acc.parent_column = <<>> /\ acc.child_column = <<>>
    THEN None ELSE Some(acc)

\* The end of _parse_foreign_key: all four values must be non-empty.
EmitForeignKey(acc) ==
    IF \/ acc.parent_table = <<>> \/ acc.child_table = <<>>
       \/ acc.parent_column = <<>> \/ acc.child_column = <<>>
    THEN None ELSE Some(acc)

\* A5erParser._parse_foreign_key
ParseForeignKey(lines) ==
    EmitForeignKey(ForeignKeyLines(ForeignKey(<<>>, <<>>, <<>>, <<>>), lines))

EntityHeader == <<LB, "Entity]">>
RelationHeader == <<LB, "Relation]">>

\* The header parse() reads from a section: the first line of the trimmed
\* section, trimmed.
SectionHeader(section) == Strip(Split(Strip(section), NL)[1])
SectionBody(section) == Tail(Split(Strip(section), NL))

\* A variant of ParseSection that reads every other header as [Entity].
ParseSectionDefaultEntity(section) ==
    IF SectionHeader(section) = RelationHeader
    THEN [tables |-> <<>>, foreign_keys |-> ParseForeignKey(SectionBody(section))]
    ELSE [tables |-> ParseTable(SectionBody(section)), foreign_keys |-> <<>>]

\* The body of the loop of parse(): what one section adds.
ParseSection(section) ==
    IF SectionHeader(section) = EntityHeader
    THEN [tables |-> ParseTable(SectionBody(section)), foreign_keys |-> <<>>]
    ELSE IF SectionHeader(section) = RelationHeader
    THEN [tables |-> <<>>, foreign_keys |-> ParseForeignKey(SectionBody(section))]
    ELSE [tables |-> <<>>, foreign_keys |-> <<>>]

RECURSIVE ParseSections(_)
ParseSections(sections) ==
    IF sections = <<>> THEN [tables |-> <<>>, foreign_keys |-> <<>>]
    ELSE LET first == ParseSection(Head(sections))
             rest == ParseSections(Tail(sections))
         IN  [tables |-> first.tables \o rest.tables,
              foreign_keys |-> first.foreign_keys \o rest.foreign_keys]

\* A5erParser._iter_sections
IterSections(c) == SectionSplit(c)

\* A5erParser.parse, on a parser whose _content is c.
Parse(c) == ParseSections(IterSections(c))

\* A5erParser(s).parse()
ParseText(s) == Parse(StripBom(s))

(***************************************************************************)
(* Inputs of the parser: every text of up to MaxLines lines drawn from     *)
(* EntityLines and every text of up to MaxSections sections drawn from     *)
(* SampleSections, each behind 0..MaxBom byte-order-marks, and every       *)
(* [Relation] section of up to MaxRelLines body lines drawn from           *)
(* RelationLines.                                                          *)
(***************************************************************************)
RECURSIVE Join(_, _)
Join(parts, sep) ==
    IF parts = <<>> THEN <<>>
    ELSE IF Len(parts) = 1 THEN parts[1]
    ELSE parts[1] \o <<sep>> \o Join(Tail(parts), sep)

Boms(n) == [i \in 1..n |-> BOM]

FieldLine == <<"Field=", QUOTE, "a", QUOTE, COMMA, QUOTE, "b", QUOTE, COMMA,
               QUOTE, "c", QUOTE, COMMA, QUOTE, "NOT", SP, "NULL", QUOTE, COMMA, "0">>
IndexLine == <<"Index=", "a", EQ, "1", COMMA, "a", COMMA, SP, "b">>

EntityLines ==
    { EntityHeader, <<SP>> \o EntityHeader, <<LB, "Other]">>,
      <<"PName=", "a">>, <<"PName=">>, <<SP, "PName=", "b", SP>>,
      <<>> }

RelationLines ==
    { <<"Entity1=", "a">>, <<"Entity2=", "b">>, <<"Fields1=", "c">>,
      <<"Fields2=", "d">>, <<"Entity1=">>, <<SP, "Fields2=", "c">> }

FullEntity ==
    Join(<<EntityHeader, <<"PName=", "a">>, <<"LName=", "a">>, <<"LName=", "b">>,
           <<"Page=", "a">>, <<"Page=", "b">>, FieldLine, <<"Field=", "a">>,
           IndexLine, <<"Index=", "a">>, <<"a">> >>, NL)
FullRelation ==
    Join(<<RelationHeader, <<"Entity1=", "a">>, <<"Entity2=", "b">>,
           <<"Fields1=", "c">>, <<"Fields2=", "d">> >>, NL)

SampleSections ==
    { FullEntity,
      Join(<<EntityHeader, <<"LName=", "a">>, <<"Page=", "a">>, FieldLine, IndexLine>>, NL),
      FullRelation,
      Join(<<RelationHeader, <<"Entity1=", "a">>, <<"Entity2=", "b">>,
             <<"Fields1=", "c">> >>, NL),
      Join(<<<<LB, "Other]">>, <<"PName=", "b">>, FieldLine, <<"Entity1=", "a">>,
             <<"Entity2=", "b">>, <<"Fields1=", "c">>, <<"Fields2=", "d">> >>, NL),
      Join(<<EntityHeader \o <<"a">>, <<"PName=", "b">> >>, NL),
      Join(<<<<SP>> \o EntityHeader \o <<SP>>, <<"PName=", "b">> >>, NL) }

NoLookup == [op |-> "none", name |-> <<>>, raised |-> FALSE, result |-> <<>>]

Init ==
    /\ pc = "start"
    /\ \/ \E n \in 0..MaxBom, k \in 0..MaxLines : \E ls \in [1..k -> EntityLines] :
              text = Boms(n) \o Join(ls, NL)
       \/ \E n \in 0..MaxBom, k \in 0..MaxSections : \E ss \in [1..k -> SampleSections] :
              text = Boms(n) \o Join(ss, NL)
       \/ \E k \in 0..MaxRelLines : \E ls \in [1..k -> RelationLines] :
              text = Join(<<RelationHeader>> \o ls, NL)
    /\ content = <<>>
    /\ tables = <<>>
    /\ foreign_keys = <<>>
    /\ line = <<>>
    /\ column = None
    /\ outgoing = <<>>
    /\ incoming = <<>>
    /\ lookup = NoLookup
    /\ pages = <<>>
    /\ files = <<>>

\* parser = A5erParser(text)
ParserInit ==
    /\ pc = "start"
    /\ content' = StripBom(text)
    /\ pc' = "constructed"
    /\ UNCHANGED <<text, tables, foreign_keys, line, column, outgoing, incoming,
                   lookup, pages, files>>

\* tables, foreign_keys = parser.parse()
ParserParse ==
    /\ pc = "constructed"
    /\ tables' = Parse(content).tables
    /\ foreign_keys' = Parse(content).foreign_keys
    /\ pc' = "parsed"
    /\ UNCHANGED <<text, content, line, column, outgoing, incoming, lookup,
                   pages, files>>

Next == ParserInit \/ ParserParse

Spec == Init /\ [][Next]_vars

(***************************************************************************)
(* Properties of the parser.                                               *)
(***************************************************************************)
Parsed == pc = "parsed"
Result == [tables |-> tables, foreign_keys |-> foreign_keys]

\* The sections of the parsed content, and what is read from their text.
Chunks == IterSections(content)
EntityChunks == {i \in 1..Len(Chunks) : SectionHeader(Chunks[i]) = EntityHeader}
RelationChunks == {i \in 1..Len(Chunks) : SectionHeader(Chunks[i]) = RelationHeader}
IgnoredChunks == (1..Len(Chunks)) \ (EntityChunks \cup RelationChunks)

\* The body lines of a section that, trimmed, start with a key, their
\* values, and the value of the last of them (empty when there is none).
LinesWith(body, key) == {i \in 1..Len(body) : StartsWith(Strip(body[i]), key)}
ValueAt(body, i, key) == Drop(Strip(body[i]), Len(key))
Values(body, key) == {ValueAt(body, i, key) : i \in LinesWith(body, key)}
LastValue(body, key) ==
    IF LinesWith(body, key) = {} THEN <<>>
    ELSE ValueAt(body, CHOOSE i \in LinesWith(body, key) :
                           \A j \in LinesWith(body, key) : j <= i, key)

\* C1 (as stated): for every text that begins with a byte-order-mark, also
\* one whose remainder begins with another mark, parsing the text gives the
\* tables and foreign keys of parsing it with that one mark removed.
C1_BomRemovedSameResult ==
    (Parsed /\ StartsWith(text, <<BOM>>)) => Result = ParseText(Tail(text))

\* C1 (amended): for every text that begins with exactly one byte-order-mark
\* (its remainder does not begin with another), parsing the text gives the
\* tables and foreign keys of parsing it with the mark removed.
C1_SingleBomRemovedSameResult ==
    (Parsed /\ StartsWith(text, <<BOM>>) /\ ~StartsWith(Tail(text), <<BOM>>))
        => Result = ParseText(Tail(text))

C1_Witness ==
    /\ Parsed
    /\ StartsWith(text, <<BOM>>) /\ ~StartsWith(Tail(text), <<BOM>>)
    /\ tables # <<>>
    /\ foreign_keys # <<>>

\* The blocks of a text by a scan of its lines: a block begins at a line
\* whose first character is "[" and runs up to the next such line or the
\* end; what precedes the first such line is no block.
IsHeaderLine(l) == l # <<>> /\ l[1] = LB
BlockEnd(lines, h) ==
    IF \E j \in (h + 1)..Len(lines) : IsHeaderLine(lines[j])
    THEN (CHOOSE j \in (h + 1)..Len(lines) :
              /\ IsHeaderLine(lines[j])
              /\ \A k \in (h + 1)..(j - 1) : ~IsHeaderLine(lines[k])) - 1
    ELSE Len(lines)

RECURSIVE BlocksFrom(_, _)
BlocksFrom(lines, i) ==
    IF i > Len(lines) THEN <<>>
    ELSE IF IsHeaderLine(lines[i])
    THEN <<Join(SubSeq(lines, i, BlockEnd(lines, i)), NL)>>
             \o BlocksFrom(lines, BlockEnd(lines, i) + 1)
    ELSE BlocksFrom(lines, i + 1)

HeaderBlocks(c) == BlocksFrom(Split(c, NL), 1)

\* C2: the sections the parser decodes are exactly the blocks that begin at
\* a line whose first character is "[": a line with white space before "["
\* (the first line included) and the text before the first header are never
\* decoded as a section.
C2_SectionsAreHeaderBlocks ==
    Parsed => Result = ParseSections(HeaderBlocks(content))

\* C3: a Table is emitted only for an [Entity] section in which a non-empty
\* physical_name was found; a section with no PName= line emits none, and
\* the sections after it are still parsed.
C3_TableOnlyWithPName ==
    Parsed =>
        /\ \A i \in 1..Len(tables) : tables[i].physical_name # <<>>
        /\ Len(tables) <= Cardinality({i \in EntityChunks :
               \E v \in Values(SectionBody(Chunks[i]), PNamePrefix) : v # <<>>})
        /\ Len(tables) >= Cardinality({i \in EntityChunks :
               /\ LinesWith(SectionBody(Chunks[i]), PNamePrefix) # {}
               /\ \A v \in Values(SectionBody(Chunks[i]), PNamePrefix) : v # <<>>})

C3_Witness ==
    /\ Parsed
    /\ Len(tables) = 1
    /\ \E i \in EntityChunks, j \in EntityChunks :
           /\ i < j
           /\ LinesWith(SectionBody(Chunks[i]), PNamePrefix) = {}
           /\ LinesWith(SectionBody(Chunks[i]), LNamePrefix) # {}
           /\ LinesWith(SectionBody(Chunks[i]), FieldPrefix) # {}
           /\ LinesWith(SectionBody(Chunks[j]), PNamePrefix) # {}

\* The [Relation] sections in which each of the four keys has a line with a
\* non-empty value.
HasAllFour(body) ==
    \A key \in {Entity1Prefix, Entity2Prefix, Fields1Prefix, Fields2Prefix} :
        \E v \in Values(body, key) : v # <<>>

\* C4: a ForeignKey is emitted only for a [Relation] section in which
\* Entity1, Entity2, Fields1 and Fields2 are all present and non-empty; an
\* emitted record has parent_table = Entity1, child_table = Entity2,
\* parent_column = Fields1, child_column = Fields2.
C4_ForeignKeyOnlyWithAllFour ==
    Parsed =>
        /\ \A i \in 1..Len(foreign_keys) :
               /\ foreign_keys[i].parent_table # <<>>
               /\ foreign_keys[i].child_table # <<>>
               /\ foreign_keys[i].parent_column # <<>>
               /\ foreign_keys[i].child_column # <<>>
               /\ \E k \in RelationChunks :
                      LET body == SectionBody(Chunks[k]) IN
                      /\ foreign_keys[i].parent_table \in Values(body, Entity1Prefix)
                      /\ foreign_keys[i].child_table \in Values(body, Entity2Prefix)
                      /\ foreign_keys[i].parent_column \in Values(body, Fields1Prefix)
                      /\ foreign_keys[i].child_column \in Values(body, Fields2Prefix)
        /\ Len(foreign_keys) <= Cardinality({k \in RelationChunks :
                                                HasAllFour(SectionBody(Chunks[k]))})

C4_Witness ==
    /\ Parsed
    /\ foreign_keys = <<ForeignKey(<<"a">>, <<"b">>, <<"c">>, <<"d">>)>>
    /\ \E k \in RelationChunks :
           /\ ~HasAllFour(SectionBody(Chunks[k]))
           /\ LinesWith(SectionBody(Chunks[k]), Entity1Prefix) # {}

\* The content without its i-th section.
WithoutChunk(i) ==
    Join([k \in 1..(Len(Chunks) - 1) |-> IF k < i THEN Chunks[k] ELSE Chunks[k + 1]], NL)

\* C9: a section whose header is neither [Entity] nor [Relation] adds no
\* Table and no ForeignKey whatever its body holds, and the result is the
\* result of parsing the content without that section.
C9_OtherHeaderIgnored ==
    Parsed =>
        \A i \in IgnoredChunks : Result = Parse(WithoutChunk(i))

C9_Witness ==
    /\ Parsed
    /\ Len(tables) = 2
    /\ \E i \in IgnoredChunks :
           /\ 1 < i /\ i < Len(Chunks)
           /\ LinesWith(SectionBody(Chunks[i]), PNamePrefix) # {}
           /\ LinesWith(SectionBody(Chunks[i]), FieldPrefix) # {}
           /\ HasAllFour(SectionBody(Chunks[i]))
           /\ foreign_keys = <<>>

\* What last-wins gives for the sections of a text, in order: a table for
\* each [Entity] section whose last PName= value is non-empty, a foreign key
\* for each [Relation] section whose four last values are all non-empty.
RECURSIVE LastWinsTables(_)
LastWinsTables(chunks) ==
    IF chunks = <<>> THEN <<>>
    ELSE LET body == SectionBody(Head(chunks))
             name == LastValue(body, PNamePrefix)
         IN  (IF SectionHeader(Head(chunks)) = EntityHeader /\ name # <<>>
              THEN << <<name, LastValue(body, LNamePrefix), LastValue(body, PagePrefix)>> >>
              ELSE <<>>)
             \o LastWinsTables(Tail(chunks))

RECURSIVE LastWinsForeignKeys(_)
LastWinsForeignKeys(chunks) ==
    IF chunks = <<>> THEN <<>>
    ELSE LET body == SectionBody(Head(chunks))
             fk == ForeignKey(LastValue(body, Entity1Prefix), LastValue(body, Entity2Prefix),
                              LastValue(body, Fields1Prefix), LastValue(body, Fields2Prefix))
         IN  (IF /\ SectionHeader(Head(chunks)) = RelationHeader
                 /\ fk.parent_table # <<>> /\ fk.child_table # <<>>
                 /\ fk.parent_column # <<>> /\ fk.child_column # <<>>
              THEN <<fk>> ELSE <<>>)
             \o LastWinsForeignKeys(Tail(chunks))

\* C10: within one section a repeated scalar key is resolved last-wins: the
\* last PName= line alone gives physical_name (no table when its value is
\* empty, whatever an earlier PName= line held), and likewise LName, Page,
\* Entity1, Entity2, Fields1 and Fields2.
C10_LastWins ==
    Parsed =>
        /\ [i \in 1..Len(tables) |->
               <<tables[i].physical_name, tables[i].logical_name, tables[i].page>>]
           = LastWinsTables(Chunks)
        /\ foreign_keys = LastWinsForeignKeys(Chunks)

C10_Witness ==
    /\ Parsed
    /\ tables = <<>>
    /\ \E i \in EntityChunks :
           LET body == SectionBody(Chunks[i]) IN
           /\ \E v \in Values(body, PNamePrefix) : v # <<>>
           /\ LastValue(body, PNamePrefix) = <<>>

(***************************************************************************)
(* A5erParser._parse_column on its own: Field lines with every tail of up  *)
(* to MaxTail characters after the fourth quoted segment.                  *)
(***************************************************************************)
TailChars == {SP, COMMA, "0", "1", "a"}

Quoted(g) == <<QUOTE>> \o g \o <<QUOTE>>

FieldSegments1 == {<<>>, <<"a">>}
FieldSpaces == {<<>>, <<SP>>}
FieldSegments4 == {<<>>, <<"NOT", SP, "NULL">>, <<"a", "not", SP, "null">>, <<"NULL">>}
FieldSeparators == {<<COMMA>>, <<>>}

InitColumn ==
    /\ pc = "column.start"
    /\ \E g1 \in FieldSegments1, ws \in FieldSpaces, g4 \in FieldSegments4,
          sep \in FieldSeparators, k \in 0..MaxTail :
          \E tail \in [1..k -> TailChars] :
              line = FieldPrefix \o Quoted(g1) \o <<COMMA>> \o ws \o Quoted(<<"b">>)
                         \o <<COMMA>> \o Quoted(<<"c">>) \o <<COMMA>> \o Quoted(g4)
                         \o sep \o tail
    /\ column = None
    /\ text = <<>>
    /\ content = <<>>
    /\ tables = <<>>
    /\ foreign_keys = <<>>
    /\ outgoing = <<>>
    /\ incoming = <<>>
    /\ lookup = NoLookup
    /\ pages = <<>>
    /\ files = <<>>

\* column = A5erParser._parse_column(line)
ColumnParse ==
    /\ pc = "column.start"
    /\ column' = ParseColumn(line)
    /\ pc' = "column.done"
    /\ UNCHANGED <<text, content, tables, foreign_keys, line, outgoing, incoming,
                   lookup, pages, files>>

NextColumn == ColumnParse

SpecColumn == InitColumn /\ [][NextColumn]_vars

\* The position of the n-th double quote of a line, or 0.
RECURSIVE NthQuote(_, _, _)
NthQuote(s, n, from) ==
    LET q == FirstAt(s, from, QUOTE) IN
    IF q = 0 THEN 0
    ELSE IF n = 1 THEN q
    ELSE NthQuote(s, n - 1, q + 1)

QuotesOfFieldLine == 8

\* The trailing token of a Field line: the text after the comma that follows
\* the fourth quoted segment, up to the next comma or the end of the line.
TrailingToken(s) ==
    LET start == NthQuote(s, QuotesOfFieldLine, 1) + 2
        commas == {j \in start..Len(s) : s[j] = COMMA}
        stop == IF commas = {} THEN Len(s) + 1
                ELSE CHOOSE j \in commas : \A k \in commas : j <= k
    IN  SubSeq(s, start, stop - 1)

\* C5: the Column of a Field line that matches the grammar has is_pk = true
\* if and only if the trailing token, trimmed, is exactly "0".
C5_IsPkIffTokenZero ==
    (pc = "column.done" /\ column # None) =>
        (column[1].is_pk <=> Strip(TrailingToken(line)) = <<"0">>)

C5_Witness ==
    /\ pc = "column.done"
    /\ column # None
    /\ column[1].is_pk
    /\ TrailingToken(line) = <<SP, "0", SP>>

(***************************************************************************)
(* RelationIndex.  A dict is a function on its keys.                       *)
(***************************************************************************)
EmptyDict == <<>>

\* A variant of SetDefaultAppend that replaces the list of the key.
SetDefaultOverwrite(d, k, v) ==
    [x \in (DOMAIN d) \cup {k} |-> IF x = k THEN <<v>> ELSE d[x]]

\* d.setdefault(k, []).append(v)
SetDefaultAppend(d, k, v) ==
    [x \in (DOMAIN d) \cup {k} |->
        IF x = k THEN (IF k \in DOMAIN d THEN Append(d[k], v) ELSE <<v>>)
        ELSE d[x]]

\* A variant of DictGet that fails on a missing key, as d[k] does.
DictIndex(d, k, default) ==
    IF k \in DOMAIN d THEN [raised |-> FALSE, value |-> d[k]]
    ELSE [raised |-> TRUE, value |-> default]

\* d.get(k, default): never raises.
DictGet(d, k, default) ==
    [raised |-> FALSE, value |-> IF k \in DOMAIN d THEN d[k] ELSE default]

\* The loop of RelationIndex.__init__.
RECURSIVE BuildOutgoing(_, _)
BuildOutgoing(fks, d) ==
    IF fks = <<>> THEN d
    ELSE BuildOutgoing(Tail(fks), SetDefaultAppend(d, Head(fks).child_table, Head(fks)))

RECURSIVE BuildIncoming(_, _)
BuildIncoming(fks, d) ==
    IF fks = <<>> THEN d
    ELSE BuildIncoming(Tail(fks), SetDefaultAppend(d, Head(fks).parent_table, Head(fks)))

IndexTables == {<<"a">>, <<"b">>}
IndexColumns == {<<"c">>, <<"d">>}
LookupNames == IndexTables \cup {<<"z">>}

IndexForeignKeys ==
    {ForeignKey(p, c, pc_, <<"c">>) : p \in IndexTables, c \in IndexTables, pc_ \in IndexColumns}

InitIndex ==
    /\ pc = "index.start"
    /\ \E k \in 0..MaxFks : foreign_keys \in [1..k -> IndexForeignKeys]
    /\ outgoing = EmptyDict
    /\ incoming = EmptyDict
    /\ lookup = NoLookup
    /\ text = <<>>
    /\ content = <<>>
    /\ tables = <<>>
    /\ line = <<>>
    /\ column = None
    /\ pages = <<>>
    /\ files = <<>>

\* relation_index = RelationIndex(foreign_keys)
IndexInit ==
    /\ pc = "index.start"
    /\ outgoing' = BuildOutgoing(foreign_keys, EmptyDict)
    /\ incoming' = BuildIncoming(foreign_keys, EmptyDict)
    /\ pc' = "index.built"
    /\ UNCHANGED <<text, content, tables, foreign_keys, line, column, lookup,
                   pages, files>>

\* relation_index.get_outgoing(table_name)
GetOutgoing ==
    /\ pc = "index.built"
    /\ \E name \in LookupNames :
           LET r == DictGet(outgoing, name, <<>>) IN
           lookup' = [op |-> "get_outgoing", name |-> name,
                      raised |-> r.raised, result |-> r.value]
    /\ UNCHANGED <<pc, text, content, tables, foreign_keys, line, column,
                   outgoing, incoming, pages, files>>

\* relation_index.get_incoming(table_name)
GetIncoming ==
    /\ pc = "index.built"
    /\ \E name \in LookupNames :
           LET r == DictGet(incoming, name, <<>>) IN
           lookup' = [op |-> "get_incoming", name |-> name,
                      raised |-> r.raised, result |-> r.value]
    /\ UNCHANGED <<pc, text, content, tables, foreign_keys, line, column,
                   outgoing, incoming, pages, files>>

NextIndex == IndexInit \/ GetOutgoing \/ GetIncoming

SpecIndex == InitIndex /\ [][NextIndex]_vars

\* The records of the input whose child (parent) is a given table, in input
\* order.
WithChild(name) ==
    LET Test(fk) == fk.child_table = name IN SelectSeq(foreign_keys, Test)
WithParent(name) ==
    LET Test(fk) == fk.parent_table = name IN SelectSeq(foreign_keys, Test)

RECURSIVE SumLengths(_, _)
SumLengths(d, keys) ==
    IF keys = {} THEN 0
    ELSE LET k == CHOOSE x \in keys : TRUE IN
         Len(d[k]) + SumLengths(d, keys \ {k})

\* C6: the index places each of the N input records in exactly one outgoing
\* list (that of its child_table) and one incoming list (that of its
\* parent_table), without deduplication: the lengths of either kind sum to
\* N and each list is in input order.
C6_IndexPartitionsInput ==
    pc = "index.built" =>
        /\ DOMAIN outgoing = {foreign_keys[i].child_table : i \in 1..Len(foreign_keys)}
        /\ DOMAIN incoming = {foreign_keys[i].parent_table : i \in 1..Len(foreign_keys)}
        /\ \A k \in DOMAIN outgoing : outgoing[k] = WithChild(k)
        /\ \A k \in DOMAIN incoming : incoming[k] = WithParent(k)
        /\ SumLengths(outgoing, DOMAIN outgoing) = Len(foreign_keys)
        /\ SumLengths(incoming, DOMAIN incoming) = Len(foreign_keys)

C6_Witness ==
    /\ pc = "index.built"
    /\ Len(foreign_keys) = 3
    /\ foreign_keys[1] = foreign_keys[3]
    /\ foreign_keys[1] # foreign_keys[2]
    /\ foreign_keys[1].child_table = foreign_keys[2].child_table
    /\ foreign_keys[1].parent_table # foreign_keys[2].parent_table

\* C7: after the index is built and after any get_outgoing / get_incoming
\* calls, a lookup by a name with no foreign key in that role returns an
\* empty sequence and does not fail.
C7_MissingNameGivesEmpty ==
    /\ (lookup.op = "get_outgoing" /\ WithChild(lookup.name) = <<>>)
           => (~lookup.raised /\ lookup.result = <<>>)
    /\ (lookup.op = "get_incoming" /\ WithParent(lookup.name) = <<>>)
           => (~lookup.raised /\ lookup.result = <<>>)

C7_Witness ==
    /\ lookup.op = "get_incoming"
    /\ lookup.name = <<"a">>
    /\ WithParent(<<"a">>) = <<>>
    /\ WithChild(<<"a">>) # <<>>
    /\ lookup.result = <<>>

(***************************************************************************)
(* MarkdownGenerator.  A document is modelled by what it holds, in order:  *)
(* its title, its table count, its list of tables and, for each table, the *)
(* heading, the rows of the column table, the index list and the two       *)
(* relation lists (a list that is empty is a part that is not written).    *)
(***************************************************************************)
\* str.lower() on the atoms of the model.
LowerAtom(c) ==
    CASE c = "NOT" -> "not"
      [] c = "NULL" -> "null"
      [] OTHER -> c

Lower(s) == [i \in 1..Len(s) |-> LowerAtom(s[i])]

\* {t.physical_name: t for t in tables}: the last table of a name wins.
TableMap(ts) ==
    [name \in {ts[i].physical_name : i \in 1..Len(ts)} |->
        ts[CHOOSE i \in 1..Len(ts) :
               /\ ts[i].physical_name = name
               /\ \A j \in 1..Len(ts) : ts[j].physical_name = name => j <= i]]

\* The label of a related table: its name, with its logical name when the
\* table is known.
Label(table_map, name) ==
    IF name \in DOMAIN table_map
    THEN name \o <<" (">> \o table_map[name].logical_name \o <<")">>
    ELSE name

Mark(b) == IF b THEN <<"v">> ELSE <<>>

\* MarkdownGenerator._write_table
WriteTable(table, table_map, out, inc) ==
    LET outg == DictGet(out, table.physical_name, <<>>).value
        incg == DictGet(inc, table.physical_name, <<>>).value
    IN  [heading |-> <<table.physical_name, table.logical_name>>,
         columns |-> [i \in 1..Len(table.columns) |->
                         <<table.columns[i].physical_name, table.columns[i].logical_name,
                           table.columns[i].data_type, Mark(table.columns[i].not_null),
                           Mark(table.columns[i].is_pk)>>],
         indexes |-> [i \in 1..Len(table.indexes) |->
                         <<Mark(table.indexes[i].is_unique), table.indexes[i].name,
                           Join(table.indexes[i].columns, ", ")>>],
         outgoing |-> [i \in 1..Len(outg) |->
                         <<outg[i].child_column, Label(table_map, outg[i].parent_table),
                           outg[i].parent_column>>],
         incoming |-> [i \in 1..Len(incg) |->
                         <<Label(table_map, incg[i].child_table), incg[i].child_column,
                           incg[i].parent_column>>]]

\* MarkdownGenerator.generate_page
GeneratePage(page_name, page_tables, table_map, out, inc) ==
    [title |-> page_name,
     count |-> Len(page_tables),
     toc |-> [i \in 1..Len(page_tables) |->
                 <<page_tables[i].physical_name, Lower(page_tables[i].physical_name),
                   page_tables[i].logical_name>>],
     details |-> [i \in 1..Len(page_tables) |->
                     WriteTable(page_tables[i], table_map, out, inc)]]

(***************************************************************************)
(* main, from the parsed tables and foreign keys on.                       *)
(***************************************************************************)
\* The code point of a character of a name.
CodePoint(c) ==
    CASE c = SP -> 32
      [] c = "/" -> 47
      [] c = "_" -> 95
      [] c = "a" -> 97
      [] c = "b" -> 98
      [] c = "c" -> 99
      [] c = "d" -> 100
      [] OTHER -> 0

\* a < b on strings
RECURSIVE StrLess(_, _)
StrLess(a, b) ==
    IF b = <<>> THEN FALSE
    ELSE IF a = <<>> THEN TRUE
    ELSE IF CodePoint(Head(a)) # CodePoint(Head(b))
         THEN CodePoint(Head(a)) < CodePoint(Head(b))
    ELSE StrLess(Tail(a), Tail(b))

\* list.sort(key=lambda t: t.physical_name): a stable sort.
RECURSIVE SortByName(_)
SortByName(ts) ==
    IF ts = <<>> THEN <<>>
    ELSE LET front == SortByName(SubSeq(ts, 1, Len(ts) - 1))
             t == ts[Len(ts)]
             n == Cardinality({i \in 1..Len(front) :
                                  ~StrLess(t.physical_name, front[i].physical_name)})
         IN  SubSeq(front, 1, n) \o <<t>> \o SubSeq(front, n + 1, Len(front))

\* pages.setdefault(table.page, []).append(table), on a dict kept in
\* insertion order.
AddToPage(ps, t) ==
    IF \E i \in 1..Len(ps) : ps[i].name = t.page
    THEN [i \in 1..Len(ps) |->
             IF ps[i].name = t.page
             THEN [name |-> ps[i].name, tables |-> Append(ps[i].tables, t)]
             ELSE ps[i]]
    ELSE Append(ps, [name |-> t.page, tables |-> <<t>>])

RECURSIVE GroupByPage(_, _)
GroupByPage(ts, ps) ==
    IF ts = <<>> THEN ps
    ELSE GroupByPage(Tail(ts), AddToPage(ps, Head(ts)))

SortedPages(ts) ==
    LET ps == GroupByPage(ts, <<>>) IN
    [i \in 1..Len(ps) |-> [name |-> ps[i].name, tables |-> SortByName(ps[i].tables)]]

\* page_name.replace(" ", "_").replace("/", "_")
SafeFilename(page_name) ==
    [i \in 1..Len(page_name) |->
        IF page_name[i] = SP \/ page_name[i] = "/" THEN "_" ELSE page_name[i]]

\* datetime.now().strftime("%Y%m%d_%H%M%S"), read once per run.
Timestamp == <<"20261103_120000">>

\* f"{safe_filename}_{timestamp}.md"
OutputName(page_name) == SafeFilename(page_name) \o <<"_">> \o Timestamp \o <<".md">>

\* Path.write_text: the file is created or replaced.
WriteText(fs, name, doc) ==
    [x \in (DOMAIN fs) \cup {name} |-> IF x = name THEN doc ELSE fs[x]]

MainPages == {<<"a", SP, "b">>, <<"a", "/", "b">>, <<"a">>}
MainTables ==
    {Table(<<"a">>, <<"a">>, p, <<Column(<<"a">>, <<"a">>, <<"c">>, TRUE, FALSE)>>, <<>>) :
         p \in MainPages}
    \cup {Table(<<"b">>, <<>>, p, <<>>, <<TableIndex(<<"a">>, TRUE, <<<<"a">>, <<"b">>>>)>>) :
         p \in MainPages}

InitMain ==
    /\ pc = "main.parsed"
    /\ \E k \in 0..MaxTables : tables \in [1..k -> MainTables]
    /\ foreign_keys \in {<<>>, <<ForeignKey(<<"a">>, <<"b">>, <<"c">>, <<"d">>),
                                  ForeignKey(<<"z">>, <<"a">>, <<"c">>, <<"d">>)>>}
    /\ outgoing = EmptyDict
    /\ incoming = EmptyDict
    /\ lookup = NoLookup
    /\ text = <<>>
    /\ content = <<>>
    /\ line = <<>>
    /\ column = None
    /\ pages = <<>>
    /\ files = <<>>

\* main, from building the index to sorting the tables of each page.
MainPrepare ==
    /\ pc = "main.parsed"
    /\ outgoing' = BuildOutgoing(foreign_keys, EmptyDict)
    /\ incoming' = BuildIncoming(foreign_keys, EmptyDict)
    /\ pages' = SortedPages(tables)
    /\ pc' = IF tables = <<>> THEN "main.done" ELSE "main.writing"
    /\ UNCHANGED <<text, content, tables, foreign_keys, line, column, lookup, files>>

\* One turn of the loop of main over pages.items(); pages holds the items
\* still to be written.
MainWrite ==
    /\ pc = "main.writing"
    /\ pages # <<>>
    /\ files' = WriteText(files, OutputName(Head(pages).name),
                          GeneratePage(Head(pages).name, Head(pages).tables,
                                       TableMap(tables), outgoing, incoming))
    /\ pages' = Tail(pages)
    /\ pc' = IF Tail(pages) = <<>> THEN "main.done" ELSE "main.writing"
    /\ UNCHANGED <<text, content, tables, foreign_keys, line, column, outgoing,
                   incoming, lookup>>

NextMain == MainPrepare \/ MainWrite

SpecMain == InitMain /\ [][NextMain]_vars

PageValues == {tables[i].page : i \in 1..Len(tables)}

\* C8: a run of main over tables with k distinct page values leaves k files,
\* one per page value, each named <sanitized page name>_<timestamp>.md and
\* holding that page's document; no page's file is replaced by the document
\* of another page.
C8_OneFilePerPage ==
    pc = "main.done" =>
        /\ Cardinality(DOMAIN files) = Cardinality(PageValues)
        /\ \A p \in PageValues :
               /\ OutputName(p) \in DOMAIN files
               /\ files[OutputName(p)].title = p

====
